---------------------------- MODULE Spec2Model ----------------------------
(***************************************************************************)
(* A model of amoled-maker-app: the AmoledImageConverter of                *)
(* src/amoled_image.rs and the message handler of the Amoled shell of      *)
(* src/main.rs.                                                            *)
(*                                                                         *)
(* A pixel is the tuple <<blue, green, red, alpha>> (the Bgra<u8> of the   *)
(* image crate) and the contents of an ImageBuffer are the sequence of its *)
(* pixels in iteration order.  The buffers of the model are short: the     *)
(* pixel passes of the converter treat every pixel alone, so a buffer of   *)
(* one to MaxImageLen pixels goes through every branch of them.  The       *)
(* width and height of an image are numbers of their own, kept beside the  *)
(* pixels.                                                                 *)
(***************************************************************************)
EXTENDS Integers, Sequences, FiniteSets

VARIABLES
    black_point,        \* Amoled.black_point: u8
    path_input_value,   \* Amoled.path_input_value: Option<PathBuf>
    image,              \* Amoled.image: Option<AmoledImageConverter>
    message,            \* the Message the last call of Amoled::update handled
    call                \* the last call of a converter function made on its own

vars == <<black_point, path_input_value, image, message, call>>

(***************************************************************************)
(* Bounds of the model.                                                    *)
(***************************************************************************)
\* The longest pixel buffer a decoded file holds.
MaxImageLen == 2
\* The longest pixel buffer handed to the thresholding pass on its own.
MaxBufferLen == 2

(***************************************************************************)
(* Option and Result of the Rust code.                                     *)
(***************************************************************************)
None == <<>>

Some(x) == <<x>>

Ok(x) == [ok |-> TRUE, value |-> x]

Err == [ok |-> FALSE]

\* Result::ok(): Ok(x) to Some(x), Err(_) to None.
ok(result) == IF result.ok THEN Some(result.value) ELSE None

(***************************************************************************)
(* src/amoled_image.rs                                                     *)
(***************************************************************************)
THUMBNAIL_MAX_WIDTH == 1024

THUMBNAIL_MIN_WIDTH == 256

THUMBNAIL_MAX_HEIGHT == 1024

THUMBNAIL_MIN_HEIGHT == 256

clamp(x, min, max) ==
    IF x > max THEN max
    ELSE IF x < min THEN min
    ELSE x

\* A mutant of calc_black_pixel_percentage: the factor 100 is missing.
calc_black_pixel_percentage_ratio(black_pixel_count, pixel_count) ==
    black_pixel_count \div pixel_count

\* black_pixel_count * 100 / pixel_count in usize; the product of a pixel
\* count and 100 is far below usize::MAX.
calc_black_pixel_percentage(black_pixel_count, pixel_count) ==
    (black_pixel_count * 100) \div pixel_count

\* A mutant of generate_black_image_pixel: the overwrite sets alpha to opaque.
generate_black_image_pixel_opaque(x, bp) ==
    IF x[1] > bp THEN [pixel |-> x, black |-> 0]
    ELSE IF x[2] > bp THEN [pixel |-> x, black |-> 0]
    ELSE IF x[3] > bp THEN [pixel |-> x, black |-> 0]
    ELSE [pixel |-> <<0, 0, 0, 255>>, black |-> 1]

\* A mutant of generate_black_image_pixel: a black pixel is dimmed to the
\* black point's half instead of being overwritten with zero.
generate_black_image_pixel_dim(x, bp) ==
    IF x[1] > bp THEN [pixel |-> x, black |-> 0]
    ELSE IF x[2] > bp THEN [pixel |-> x, black |-> 0]
    ELSE IF x[3] > bp THEN [pixel |-> x, black |-> 0]
    ELSE [pixel |-> <<x[1] \div 2, x[2] \div 2, x[3] \div 2, x[4]>>,
          black |-> IF x[1] \div 2 = 0 /\ x[2] \div 2 = 0 /\ x[3] \div 2 = 0
                    THEN 1 ELSE 0]

\* The body of the loop of generate_black_image for the pixel x: the pixel
\* it leaves, and what it adds to black_pixel_count.
generate_black_image_pixel(x, bp) ==
    IF x[1] > bp THEN [pixel |-> x, black |-> 0]
    ELSE IF x[2] > bp THEN [pixel |-> x, black |-> 0]
    ELSE IF x[3] > bp THEN [pixel |-> x, black |-> 0]
    ELSE IF x[3] # 0 \/ x[2] # 0 \/ x[1] # 0
         THEN [pixel |-> <<0, 0, 0, x[4]>>, black |-> 1]
         ELSE [pixel |-> x, black |-> 1]

\* The loop of generate_black_image from pixel i on.
RECURSIVE generate_black_image_loop(_, _, _, _, _)
generate_black_image_loop(pixels, bp, i, black_pixel_count, pixel_count) ==
    IF i > Len(pixels)
    THEN [image |-> pixels,
          info |-> [pixels |-> pixel_count, black_pixels |-> black_pixel_count]]
    ELSE LET step == generate_black_image_pixel(pixels[i], bp)
         IN  generate_black_image_loop([pixels EXCEPT ![i] = step.pixel], bp,
                                       i + 1,
                                       black_pixel_count + step.black,
                                       pixel_count + 1)

\* generate_black_image(&mut image, black_point) -> PixelInfo: the buffer
\* as the pass leaves it, and the PixelInfo it returns.
generate_black_image(pixels, bp) ==
    generate_black_image_loop(pixels, bp, 1, 0, 0)

\* x / y rounded to the nearest integer, halves away from zero (f64::round).
round_div(x, y) == (2 * x + y) \div (2 * y)

max(x, y) == IF x >= y THEN x ELSE y

\* The size DynamicImage::thumbnail(nwidth, nheight) gives an image of
\* width x height: the largest size within nwidth x nheight that keeps the
\* aspect ratio (both sides scaled by the smaller of nwidth / width and
\* nheight / height, rounded, at least 1).
resize_dimensions(width, height, nwidth, nheight) ==
    IF nwidth * height <= nheight * width
    THEN <<max(round_div(width * nwidth, width), 1),
           max(round_div(height * nwidth, width), 1)>>
    ELSE <<max(round_div(width * nheight, height), 1),
           max(round_div(height * nheight, height), 1)>>

\* One pixel of a thumbnail: the mean, channel by channel, of the block of
\* source pixels it covers.
sample_block(block) ==
    IF Len(block) = 1 THEN block[1]
    ELSE [c \in 1..4 |-> (block[1][c] + block[2][c]) \div 2]

\* The pixels of the thumbnail of a buffer: every block of two neighbouring
\* source pixels becomes one pixel (a last single pixel stays as it is).
thumbnail_pixels(pixels) ==
    [i \in 1..((Len(pixels) + 1) \div 2) |->
        sample_block(SubSeq(pixels, 2 * i - 1,
                            IF 2 * i <= Len(pixels) THEN 2 * i ELSE 2 * i - 1))]

\* DynamicImage::thumbnail(nwidth, nheight).to_bgra8()
thumbnail(img, nwidth, nheight) ==
    LET size == resize_dimensions(img.width, img.height, nwidth, nheight)
    IN  [width |-> size[1], height |-> size[2],
         pixels |-> thumbnail_pixels(img.pixels)]

\* The size of the thumbnail AmoledImageConverter::new asks for.
thumbnail_request(width, height) ==
    <<clamp(width \div 2, THUMBNAIL_MIN_WIDTH, THUMBNAIL_MAX_WIDTH),
      clamp(height \div 2, THUMBNAIL_MIN_HEIGHT, THUMBNAIL_MAX_HEIGHT)>>

\* AmoledImageConverter::new(image, black_point).  The viewer states and the
\* image handle of the struct are display state and are left out.
new(decoded, bp) ==
    LET bgra8_image == decoded
        request == thumbnail_request(bgra8_image.width, bgra8_image.height)
        thumb == thumbnail(decoded, request[1], request[2])
        converted_thumbnail == generate_black_image(thumb.pixels, bp)
        converted_info == generate_black_image(bgra8_image.pixels, bp)
    IN  Ok([width |-> bgra8_image.width,
            height |-> bgra8_image.height,
            image |-> bgra8_image,
            converted_image |->
                [bgra8_image EXCEPT !.pixels = converted_info.image],
            thumbnail |-> thumb,
            converted_thumbnail |->
                [thumb EXCEPT !.pixels = converted_thumbnail.image],
            black_point |-> bp,
            converted_image_black_pixel_percentage |->
                calc_black_pixel_percentage(converted_info.info.black_pixels,
                                            converted_info.info.pixels)])

\* AmoledImageConverter::from_path(path, black_point); decoded is what
\* ImageReader::open(path)?.decode() gives for the path: Err, or Ok(image).
from_path(decoded, bp) ==
    IF ~decoded.ok THEN Err
    ELSE new(decoded.value, bp)

\* A mutant of set_black_point: the pass runs over the buffers converted
\* before, not over fresh copies of the image and the thumbnail.
set_black_point_in_place(self, bp) ==
    LET converted_image_info ==
            generate_black_image(self.converted_thumbnail.pixels, bp)
        converted == generate_black_image(self.converted_image.pixels, bp)
    IN  [self EXCEPT
            !.black_point = bp,
            !.converted_thumbnail.pixels = converted_image_info.image,
            !.converted_image_black_pixel_percentage =
                calc_black_pixel_percentage(
                    converted_image_info.info.black_pixels,
                    converted_image_info.info.pixels),
            !.converted_image.pixels = converted.image]

\* A mutant of set_black_point: the converted buffers replace the image and
\* the thumbnail they were made from.
set_black_point_overwrite(self, bp) ==
    LET converted_image_info ==
            generate_black_image(self.thumbnail.pixels, bp)
        converted == generate_black_image(self.image.pixels, bp)
    IN  [self EXCEPT
            !.black_point = bp,
            !.thumbnail.pixels = converted_image_info.image,
            !.converted_thumbnail.pixels = converted_image_info.image,
            !.converted_image_black_pixel_percentage =
                calc_black_pixel_percentage(
                    converted_image_info.info.black_pixels,
                    converted_image_info.info.pixels),
            !.image.pixels = converted.image,
            !.converted_image.pixels = converted.image]

\* AmoledImageConverter::set_black_point(&mut self, black_point)
set_black_point(self, bp) ==
    LET converted_image_info ==
            generate_black_image(self.thumbnail.pixels, bp)
        converted == generate_black_image(self.image.pixels, bp)
    IN  [self EXCEPT
            !.black_point = bp,
            !.converted_thumbnail =
                [self.thumbnail EXCEPT !.pixels = converted_image_info.image],
            !.converted_image_black_pixel_percentage =
                calc_black_pixel_percentage(
                    converted_image_info.info.black_pixels,
                    converted_image_info.info.pixels),
            !.converted_image =
                [self.image EXCEPT !.pixels = converted.image]]

(***************************************************************************)
(* src/main.rs                                                             *)
(***************************************************************************)
\* A String is the sequence of its characters.
digit(c) ==
    CASE c = "0" -> 0 [] c = "1" -> 1 [] c = "2" -> 2 [] c = "3" -> 3
      [] c = "4" -> 4 [] c = "5" -> 5 [] c = "6" -> 6 [] c = "7" -> 7
      [] c = "8" -> 8 [] c = "9" -> 9 [] OTHER -> -1

\* The digit loop of str::parse::<u8>(): Err at a character that is no
\* digit and at a value above u8::MAX.
RECURSIVE parse_digits(_, _, _)
parse_digits(s, i, result) ==
    IF i > Len(s) THEN Ok(result)
    ELSE IF digit(s[i]) < 0 THEN Err
    ELSE IF result * 10 + digit(s[i]) > 255 THEN Err
    ELSE parse_digits(s, i + 1, result * 10 + digit(s[i]))

\* bp_string.parse::<u8>(): an optional "+", then one decimal digit or more.
parse_u8(s) ==
    IF s = <<>> THEN Err
    ELSE LET digits == IF s[1] = "+" THEN Tail(s) ELSE s
         IN  IF digits = <<>> THEN Err
             ELSE parse_digits(digits, 1, 0)

\* A mutant of handle_image_change: a failed decode keeps the converter the
\* shell held before.
handle_image_change_keep(path, bp, img, decoded) ==
    IF path # None
    THEN IF from_path(decoded, bp).ok THEN ok(from_path(decoded, bp)) ELSE img
    ELSE img

\* A mutant of handle_image_change: the converter is built with the default
\* black point, not with the shell's.
handle_image_change_default(path, bp, img, decoded) ==
    IF path # None THEN ok(from_path(decoded, 0)) ELSE img

\* Amoled::handle_image_change: the image slot it leaves, given the path,
\* the black point and the image slot of the shell and what decoding the
\* file at the path gives.
handle_image_change(path, bp, img, decoded) ==
    IF path # None THEN ok(from_path(decoded, bp)) ELSE img

\* The values the messages of the model carry.
BlackPoints == {0, 1, 2, 255}

Paths == {"a.png", "b.jpg"}

ImagePixels ==
    {<<0, 0, 0, 255>>, <<2, 2, 2, 7>>, <<255, 255, 255, 255>>}

ImageSizes == {<<600, 400>>, <<1024, 1024>>}

\* What the codec gives for a file: Err, or Ok of a decoded image.
Decoded ==
    {Err} \cup
    {Ok([width |-> size[1], height |-> size[2], pixels |-> pixels]) :
        size \in ImageSizes,
        pixels \in UNION {[1..n -> ImagePixels] : n \in 1..MaxImageLen}}

InputStrings ==
    {<<>>, <<"0">>, <<"2">>, <<"2", "5", "5">>, <<"2", "5", "6">>,
     <<"-", "1">>, <<"a">>, <<"+", "1">>, <<"0", "0", "2">>, <<"1", " ">>,
     <<"+">>}

\* The arm Message::BlackPointChanged(bp) of Amoled::update.
UpdateBlackPointChanged(bp) ==
    /\ black_point' = bp
    /\ image' = IF image # None
                THEN Some(set_black_point(image[1], bp))
                ELSE image
    /\ UNCHANGED path_input_value

BlackPointChanged ==
    \E bp \in BlackPoints :
        /\ UpdateBlackPointChanged(bp)
        /\ message' = [type |-> "BlackPointChanged", bp |-> bp]
        /\ UNCHANGED call

\* The arm Message::PathChanged(path_string) of Amoled::update.
PathChanged ==
    \E path_string \in Paths, decoded \in Decoded :
        /\ path_input_value' = Some(path_string)
        /\ image' = handle_image_change(path_input_value', black_point,
                                        image, decoded)
        /\ message' = [type |-> "PathChanged", path |-> path_string,
                       decoded |-> decoded.ok]
        /\ UNCHANGED <<black_point, call>>

\* The arm Message::FileButtonpressed of Amoled::update; picked is what the
\* file dialog returns.  No file is decoded while there is no path.
FileButtonpressed ==
    \E picked \in {None} \cup {Some(p) : p \in Paths}, decoded \in Decoded :
        /\ path_input_value' =
              IF picked # None THEN picked ELSE path_input_value
        /\ path_input_value' = None => decoded = Err
        /\ image' = handle_image_change(path_input_value', black_point,
                                        image, decoded)
        /\ message' = [type |-> "FileButtonpressed", picked |-> picked,
                       decoded |-> decoded.ok]
        /\ UNCHANGED <<black_point, call>>

\* A mutant of BlackPointInputChanged: a text that is no u8 resets the
\* black point to 0, as the empty text does.
BlackPointInputChanged_reset ==
    \E bp_string \in InputStrings :
        /\ IF bp_string = <<>>
           THEN UpdateBlackPointChanged(0)
           ELSE IF parse_u8(bp_string).ok
                THEN UpdateBlackPointChanged(parse_u8(bp_string).value)
                ELSE UpdateBlackPointChanged(0)
        /\ message' = [type |-> "BlackPointInputChanged", text |-> bp_string]
        /\ UNCHANGED call

\* The arm Message::BlackPointInputChanged(bp_string) of Amoled::update.
BlackPointInputChanged ==
    \E bp_string \in InputStrings :
        /\ IF bp_string = <<>>
           THEN UpdateBlackPointChanged(0)
           ELSE IF parse_u8(bp_string).ok
                THEN UpdateBlackPointChanged(parse_u8(bp_string).value)
                ELSE UNCHANGED <<black_point, path_input_value, image>>
        /\ message' = [type |-> "BlackPointInputChanged", text |-> bp_string]
        /\ UNCHANGED call

\* The arm Message::SaveButtonPressed of Amoled::update; save_path is what
\* the save dialog returns.  The file is written from the converter's export
\* buffer; nothing of the shell or of the converter is assigned.
SaveButtonPressed ==
    \E save_path \in {None} \cup {Some(p) : p \in Paths} :
        /\ message' = [type |-> "SaveButtonPressed", save_path |-> save_path]
        /\ UNCHANGED <<black_point, path_input_value, image, call>>

\* Amoled::new(): Amoled::default().
Init ==
    /\ black_point = 0
    /\ path_input_value = None
    /\ image = None
    /\ message = [type |-> "none"]
    /\ call = [op |-> "none"]

Next ==
    \/ BlackPointChanged
    \/ PathChanged
    \/ FileButtonpressed
    \/ BlackPointInputChanged
    \/ SaveButtonPressed

Spec == Init /\ [][Next]_vars

(***************************************************************************)
(* The thresholding pass on its own: generate_black_image over a buffer    *)
(* and a black point drawn from bounded sets, then once more over its own  *)
(* result, with the percentage calc_black_pixel_percentage makes of the    *)
(* counts.                                                                 *)
(***************************************************************************)
BufferPixels ==
    {<<b, g, r, a>> : b \in {0, 3}, g \in {0, 3}, r \in {0, 3}, a \in {7, 255}}
        \cup {<<255, 255, 255, 255>>}

Buffers == UNION {[1..n -> BufferPixels] : n \in 1..MaxBufferLen}

Thresholds == {0, 2, 3, 254, 255}

InitThreshold ==
    /\ black_point = 0
    /\ path_input_value = None
    /\ image = None
    /\ message = [type |-> "none"]
    /\ call \in {[op |-> "input", image |-> pixels, black_point |-> bp] :
                    pixels \in Buffers, bp \in Thresholds}

Threshold ==
    /\ call.op = "input"
    /\ LET pass == generate_black_image(call.image, call.black_point)
       IN  call' = [op |-> "generate_black_image",
                    image |-> call.image,
                    black_point |-> call.black_point,
                    converted |-> pass.image,
                    info |-> pass.info,
                    percentage |->
                        calc_black_pixel_percentage(pass.info.black_pixels,
                                                    pass.info.pixels)]
    /\ UNCHANGED <<black_point, path_input_value, image, message>>

ThresholdAgain ==
    /\ call.op = "generate_black_image"
    /\ LET pass == generate_black_image(call.converted, call.black_point)
       IN  call' = [op |-> "generate_black_image_twice",
                    image |-> call.image,
                    black_point |-> call.black_point,
                    converted |-> call.converted,
                    info |-> call.info,
                    percentage |-> call.percentage,
                    converted_twice |-> pass.image,
                    info_twice |-> pass.info]
    /\ UNCHANGED <<black_point, path_input_value, image, message>>

NextThreshold ==
    \/ Threshold
    \/ ThresholdAgain

SpecThreshold == InitThreshold /\ [][NextThreshold]_vars

(***************************************************************************)
(* The thumbnail of AmoledImageConverter::new on its own, over source      *)
(* sizes drawn from a bounded set.                                         *)
(***************************************************************************)
SourceDims == {1, 100, 255, 256, 400, 511, 600, 1024, 2048, 2049, 4000}

InitThumbnail ==
    /\ black_point = 0
    /\ path_input_value = None
    /\ image = None
    /\ message = [type |-> "none"]
    /\ call \in {[op |-> "input", width |-> w, height |-> h] :
                    w \in SourceDims, h \in SourceDims}

Thumbnail ==
    /\ call.op = "input"
    /\ LET converter ==
               new([width |-> call.width, height |-> call.height,
                    pixels |-> <<<<255, 255, 255, 255>>>>], 0).value
       IN  call' = [op |-> "new",
                    width |-> converter.width,
                    height |-> converter.height,
                    thumbnail_width |-> converter.thumbnail.width,
                    thumbnail_height |-> converter.thumbnail.height]
    /\ UNCHANGED <<black_point, path_input_value, image, message>>

NextThumbnail == Thumbnail

SpecThumbnail == InitThumbnail /\ [][NextThumbnail]_vars

(***************************************************************************)
(* Claims.                                                                 *)
(***************************************************************************)
\* The pass of call has run (once or twice).
PassDone == call.op \in {"generate_black_image", "generate_black_image_twice"}

\* C1: after the thresholding pass with black point t, every pixel whose
\* blue, green and red are all <= t is (0, 0, 0) with its alpha as before,
\* and every pixel with one of them > t is as it was before the pass.
C1_ThresholdPass ==
    PassDone =>
        /\ Len(call.converted) = Len(call.image)
        /\ \A i \in 1..Len(call.image) :
              LET before == call.image[i]
                  after == call.converted[i]
                  t == call.black_point
              IN  IF before[1] <= t /\ before[2] <= t /\ before[3] <= t
                  THEN after = <<0, 0, 0, before[4]>>
                  ELSE after = before

\* C1 witness: a pass that blackened a pixel that was not black and whose
\* alpha is not 255, and left another pixel above the black point alone.
C1_Witness ==
    /\ call.op = "generate_black_image"
    /\ \E i, j \in 1..Len(call.image) :
          /\ call.image[i][4] = 7
          /\ call.image[i] # call.converted[i]
          /\ call.converted[i] = <<0, 0, 0, 7>>
          /\ call.image[j][3] > call.black_point
          /\ call.converted[j] = call.image[j]

\* The converter the shell holds is what construction from its original
\* image with its current black point gives, converted buffers only.
ConvertedAsConstructed(c) ==
    LET fresh == new(c.image, c.black_point).value
    IN  /\ c.converted_image = fresh.converted_image
        /\ c.converted_thumbnail = fresh.converted_thumbnail

\* C2: in every reachable state the converted image is the thresholding
\* pass over the original image with the current black point and the
\* converted thumbnail is the pass over the thumbnail with it, whatever the
\* earlier black points were; they are the buffers construction with the
\* current black point produces.
C2_ConvertedDerived ==
    image # None =>
        LET c == image[1]
        IN  /\ c.converted_image.pixels =
                  generate_black_image(c.image.pixels, c.black_point).image
            /\ c.converted_thumbnail.pixels =
                  generate_black_image(c.thumbnail.pixels, c.black_point).image
            /\ ConvertedAsConstructed(c)

\* C2 witness: set_black_point has run with the lowest black point on a
\* converter whose image has a dark pixel that is not black, and the
\* converted image shows the pixel as the original has it.
C2_Witness ==
    /\ image # None
    /\ message.type = "BlackPointChanged"
    /\ message.bp = 0
    /\ \E i \in 1..Len(image[1].image.pixels) :
          /\ image[1].image.pixels[i] = <<2, 2, 2, 7>>
          /\ image[1].converted_image.pixels[i] = <<2, 2, 2, 7>>

\* The percentage calc_black_pixel_percentage makes of the counts of the
\* pass over pixels with black point bp.
PassPercentage(pixels, bp) ==
    LET info == generate_black_image(pixels, bp).info
    IN  (info.black_pixels * 100) \div info.pixels

\* C3: in every reachable state of a converter the percentage is
\* floor(blackCount * 100 / totalCount) of the pass over the thumbnail (not
\* over the full image) with the current black point.
C3_PercentageFromThumbnail ==
    image # None =>
        image[1].converted_image_black_pixel_percentage =
            PassPercentage(image[1].thumbnail.pixels, image[1].black_point)

\* C4: on each axis whose source dimension is >= 256, the dimension of the
\* thumbnail of a constructed converter is within 256..1024.
C4_ThumbnailDims ==
    call.op = "new" =>
        /\ call.width >= 256 =>
              256 <= call.thumbnail_width /\ call.thumbnail_width <= 1024
        /\ call.height >= 256 =>
              256 <= call.thumbnail_height /\ call.thumbnail_height <= 1024

\* The last message was a black point message.
IsBlackPointMessage(m) ==
    m.type \in {"BlackPointChanged", "BlackPointInputChanged"}

\* C5: a step of set_black_point (a black point message handled while the
\* shell holds a converter) leaves the original image, the thumbnail, the
\* width and the height of the converter as they were.
C5_SetBlackPointFrame ==
    [][(IsBlackPointMessage(message') /\ image # None) =>
          /\ image' # None
          /\ image'[1].image = image[1].image
          /\ image'[1].thumbnail = image[1].thumbnail
          /\ image'[1].width = image[1].width
          /\ image'[1].height = image[1].height]_vars

\* C5 witness: set_black_point has run with a black point that converts
\* pixels of the image and of the thumbnail, and the originals are held
\* unconverted.
C5_Witness ==
    /\ image # None
    /\ message.type = "BlackPointChanged"
    /\ message.bp = 2
    /\ image[1].converted_image # image[1].image
    /\ image[1].converted_thumbnail # image[1].thumbnail
    /\ image[1].width = 600

\* C6: the pass applied with t to the result of the pass with t gives the
\* same buffer and the same black and total pixel counts as the one pass.
C6_Idempotent ==
    call.op = "generate_black_image_twice" =>
        /\ call.converted_twice = call.converted
        /\ call.info_twice = call.info

\* C6 witness: a second pass after a first pass that changed the buffer
\* and left a pixel above the black point.
C6_Witness ==
    /\ call.op = "generate_black_image_twice"
    /\ call.converted # call.image
    /\ call.info.black_pixels < call.info.pixels

\* C7: the percentage of the counts of the pass over a non-empty buffer is
\* within 0..100; it is 100 for t = 255, and 0 for t = 0 over a buffer with
\* no pure black pixel.
C7_PercentageRange ==
    PassDone =>
        /\ call.percentage \in 0..100
        /\ call.black_point = 255 => call.percentage = 100
        /\ (/\ call.black_point = 0
            /\ \A i \in 1..Len(call.image) :
                  ~(call.image[i][1] = 0 /\ call.image[i][2] = 0
                        /\ call.image[i][3] = 0))
              => call.percentage = 0

\* C7 witness: a pass with t = 255 over a buffer with a white pixel, which
\* counts every pixel black.
C7_Witness ==
    /\ call.op = "generate_black_image"
    /\ call.black_point = 255
    /\ \E i \in 1..Len(call.image) : call.image[i] = <<255, 255, 255, 255>>
    /\ call.percentage = 100

\* A converter with every field populated and consistent with the others.
FullyInitialized(c) ==
    /\ DOMAIN c = {"width", "height", "image", "converted_image", "thumbnail",
                   "converted_thumbnail", "black_point",
                   "converted_image_black_pixel_percentage"}
    /\ Len(c.image.pixels) >= 1
    /\ c.width = c.image.width /\ c.height = c.image.height
    /\ c.thumbnail =
          thumbnail(c.image, thumbnail_request(c.width, c.height)[1],
                    thumbnail_request(c.width, c.height)[2])
    /\ Len(c.thumbnail.pixels) >= 1
    /\ c.converted_image =
          [c.image EXCEPT !.pixels =
              generate_black_image(c.image.pixels, c.black_point).image]
    /\ c.converted_thumbnail =
          [c.thumbnail EXCEPT !.pixels =
              generate_black_image(c.thumbnail.pixels, c.black_point).image]
    /\ c.converted_image_black_pixel_percentage \in
          {PassPercentage(c.image.pixels, c.black_point),
           PassPercentage(c.thumbnail.pixels, c.black_point)}

\* The last message made the shell decode the file at its path.
Decoding ==
    /\ message.type \in {"PathChanged", "FileButtonpressed"}
    /\ path_input_value # None

\* C8: the image slot of the shell is empty or holds a fully initialized
\* converter; after a message that decodes a file, the slot is empty if the
\* decode failed and holds a converter if it succeeded.
C8_AllOrNothing ==
    /\ image = None \/ (Len(image) = 1 /\ FullyInitialized(image[1]))
    /\ (Decoding /\ ~message.decoded) => image = None
    /\ (Decoding /\ message.decoded) => image # None

\* C8 witness: a PathChanged whose decode failed, after a black point
\* message was handled, with the slot empty.
C8_Witness ==
    /\ message.type = "PathChanged"
    /\ ~message.decoded
    /\ black_point = 2
    /\ image = None

\* The value of a text of decimal digits, with an optional "+" before
\* them; -1 for any other text.
RECURSIVE DecimalValue(_)
DecimalValue(s) ==
    IF s = <<>> THEN 0
    ELSE IF s[Len(s)] \notin {"0", "1", "2", "3", "4", "5", "6", "7", "8", "9"}
         THEN -1
    ELSE LET head == DecimalValue(SubSeq(s, 1, Len(s) - 1))
             last == CHOOSE d \in 0..9 :
                        <<"0", "1", "2", "3", "4", "5", "6", "7", "8", "9">>[d + 1]
                            = s[Len(s)]
         IN  IF head < 0 THEN -1 ELSE head * 10 + last

U8Value(s) ==
    LET digits == IF s # <<>> /\ s[1] = "+" THEN Tail(s) ELSE s
    IN  IF digits = <<>> \/ DecimalValue(digits) > 255 THEN -1
        ELSE DecimalValue(digits)

\* What BlackPointChanged(bp) does to the shell.
BlackPointChangedEffect(bp) ==
    /\ black_point' = bp
    /\ path_input_value' = path_input_value
    /\ image' = IF image = None THEN None
                ELSE Some(set_black_point(image[1], bp))

\* C9: BlackPointInputChanged(text) with an empty text does what
\* BlackPointChanged(0) does; with a text that parses as a u8, what
\* BlackPointChanged of that value does; with any other text it leaves the
\* black point, the path and the converter of the shell unchanged.
C9_BlackPointInput ==
    [][message'.type = "BlackPointInputChanged" =>
          IF message'.text = <<>> THEN BlackPointChangedEffect(0)
          ELSE IF U8Value(message'.text) >= 0
               THEN BlackPointChangedEffect(U8Value(message'.text))
               ELSE UNCHANGED <<black_point, path_input_value, image>>]_vars

\* C9 witness: the text "256" was handled while the shell held a converter
\* with a black point that is not 0: both are as they were.
C9_Witness ==
    /\ message.type = "BlackPointInputChanged"
    /\ message.text = <<"2", "5", "6">>
    /\ black_point = 2
    /\ image # None
    /\ image[1].black_point = 2

\* C10: whenever the shell holds a converter, the black point of the
\* converter is the black point of the shell.
C10_BlackPointInSync ==
    image # None => image[1].black_point = black_point

\* C10 witness: an image opened after the black point was changed.
C10_Witness ==
    /\ message.type \in {"PathChanged", "FileButtonpressed"}
    /\ image # None
    /\ black_point = 255
    /\ image[1].black_point = 255
    /\ image[1].converted_image_black_pixel_percentage = 100

====
